---- MODULE Spec2Model ----
(***************************************************************************)
(* Model of theapplewiki_api.py: the cache store (cache_path, cache_valid, *)
(* load_cache, save_cache), the two network calls (discover_update_line,   *)
(* fetch_keys), the resolver fetch_firmware_keys and the bulk loop of main.*)
(*                                                                         *)
(* Python strings are sequences of one-character strings, so that `in`,    *)
(* startswith, split and replace are computed as Python computes them.     *)
(* Python None is the one-element sequence <<"None">>, which is no string  *)
(* of characters.                                                          *)
(***************************************************************************)
EXTENDS Integers, Sequences, FiniteSets, TLC

VARIABLES
    cacheDir,    \* TRUE iff the directory CACHE_DIR exists
    cacheFiles,  \* the files of CACHE_DIR: file name -> [text, mtime]
    outFiles,    \* the files of the working directory: file name -> text
    now,         \* time.time(), in seconds
    nticks,      \* how often the clock was advanced from outside (bounded)
    argv,        \* the parsed command line: [product, ios, build, bulk]
    pc,          \* position of the process in main / fetch_firmware_keys
    idx,         \* number of bulk entries the loop of main has taken
    call,        \* arguments of the running fetch_firmware_keys call
    version,     \* local `version` of fetch_firmware_keys (reassigned at 172)
    cached,      \* local `cached`
    cache_file,  \* local `cache_file`
    final_build, \* local `final_build`
    update_line, \* local `update_line`
    discovered_build,   \* local `discovered_build`
    discovered_version, \* local `discovered_version`
    keys,        \* local `keys`
    ret,         \* what the last fetch_firmware_keys call returned
    exc,         \* the exception that ended the process, or "none"
    trace,       \* what the running resolution did so far, in order
    fetchReq,    \* the last key-fetch request: the escaped subobject in its URL
    lastResp,    \* the last network response: which one, and its class
    entry,       \* the bulk entry being processed, as the user meant it
    fs0,         \* the files as the running call found them at its lookup
    earlier,     \* what the call before returned, when it resolved the same request
    gap,         \* what the process did since its last network request
    op,          \* cache-store specification: the last operation applied
    saved,       \* cache-store specification: the last save, until another write
    escaped      \* escaping specification: the text given and what came back

vars == <<cacheDir, cacheFiles, outFiles, now, nticks, argv, pc, idx, call,
          version, cached, cache_file, final_build, update_line,
          discovered_build, discovered_version, keys, ret,
          exc, trace, fetchReq, lastResp, entry, fs0, earlier, gap, op, saved, escaped>>

-----------------------------------------------------------------------------
(* Bounds of the model *)

MaxTicks == 1     \* clock advances from outside
MaxBulk == 2      \* entries of a --bulk list
MaxInitFiles == 1 \* files found in CACHE_DIR at program start
MaxOps == 2       \* saves and removals of the cache-store specification
MaxLen == 3       \* characters of a text given to smw_path_escape

-----------------------------------------------------------------------------
(* Configuration, lines 11-15 *)

CACHE_DIR == <<".", "c", "a", "c", "h", "e">>
CACHE_TTL == 7 * 24 * 60 * 60
POLITE_DELAY == 2

-----------------------------------------------------------------------------
(* Python values *)

None == <<"None">>

\* bool(x) of an optional string: None and "" are falsy
Truthy(x) == x # None /\ x # <<>>

\* f"{x}": str(None) is "None"
Fmt(x) == IF x = None THEN <<"N", "o", "n", "e">> ELSE x

\* p in s, for strings
IsSubstr(p, s) ==
    \E i \in 0..(Len(s) - Len(p)) : SubSeq(s, i + 1, i + Len(p)) = p

\* s.startswith(p)
StartsWith(s, p) == Len(p) <= Len(s) /\ SubSeq(s, 1, Len(p)) = p

\* index of the first occurrence of character c in s, 0 if none
FirstIndex(s, c) ==
    IF \E i \in 1..Len(s) : s[i] = c
    THEN CHOOSE i \in 1..Len(s) : s[i] = c /\ \A j \in 1..(i - 1) : s[j] # c
    ELSE 0

\* s.split(c) for a one-character separator c
RECURSIVE Split(_, _)
Split(s, c) ==
    LET i == FirstIndex(s, c)
    IN  IF i = 0 THEN <<s>>
        ELSE <<SubSeq(s, 1, i - 1)>> \o Split(SubSeq(s, i + 1, Len(s)), c)

\* s.replace(pat, rep): non-overlapping occurrences, left to right
RECURSIVE Replace(_, _, _)
Replace(s, pat, rep) ==
    IF Len(s) = 0 \/ Len(pat) = 0 THEN s
    ELSE IF StartsWith(s, pat)
         THEN rep \o Replace(SubSeq(s, Len(pat) + 1, Len(s)), pat, rep)
         ELSE <<s[1]>> \o Replace(SubSeq(s, 2, Len(s)), pat, rep)

\* os.path.join(d, name) and os.path.basename(path)
\* smw_path_escape, lines 21-22: five replacements, one after the other
smw_path_escape_keeps_comma(text) ==
    Replace(Replace(Replace(Replace(text,
        <<"[">>, <<"-", "5", "B">>),
        <<"]">>, <<"-", "5", "D">>),
        <<" ">>, <<"-", "2", "0">>),
        <<":">>, <<"-", "3", "A">>)

smw_path_escape(text) ==
    Replace(Replace(Replace(Replace(Replace(text,
        <<"[">>, <<"-", "5", "B">>),
        <<"]">>, <<"-", "5", "D">>),
        <<" ">>, <<"-", "2", "0">>),
        <<":">>, <<"-", "3", "A">>),
        <<",">>, <<"%", "2", "C">>)

PathJoin(d, name) == d \o <<"/">> \o name
RECURSIVE Basename(_)
Basename(path) ==
    LET i == FirstIndex(path, "/")
    IN  IF i = 0 THEN path ELSE Basename(SubSeq(path, i + 1, Len(path)))

DotJson == <<".", "j", "s", "o", "n">>

-----------------------------------------------------------------------------
(* JSON.  A parsed value is [t, v]: t its Python type, v its members (opaque *)
(* to the program, which only tests the type and the emptiness).  A text is  *)
(* a sequence of characters.                                                 *)

PyNone == [t |-> "null", v |-> <<>>]
JObject(members) == [t |-> "object", v |-> members]
JArray(members) == [t |-> "array", v |-> members]

\* bool(x) of a parsed value: None, {} and [] are falsy
TruthyVal(x) == x.t # "null" /\ x.v # <<>>

\* json.dump(data, f, separators=(",", ":")): no whitespace is written
json_dump(data) ==
    CASE data.t = "object" -> <<"{">> \o data.v \o <<"}">>
      [] data.t = "array" -> <<"[">> \o data.v \o <<"]">>
      [] OTHER -> <<"n", "u", "l", "l">>

\* the JSON parser skips whitespace around the value
RECURSIVE LStrip(_)
LStrip(text) ==
    IF Len(text) > 0 /\ text[1] = " " THEN LStrip(SubSeq(text, 2, Len(text)))
    ELSE text
RECURSIVE RStrip(_)
RStrip(text) ==
    IF Len(text) > 0 /\ text[Len(text)] = " "
    THEN RStrip(SubSeq(text, 1, Len(text) - 1))
    ELSE text

Enclosed(text, open, close) ==
    Len(text) >= 2 /\ text[1] = open /\ text[Len(text)] = close

\* json.load(f) returns a value ...
JsonOk(text) ==
    LET s == RStrip(LStrip(text))
    IN  \/ s = <<"n", "u", "l", "l">>
        \/ Enclosed(s, "{", "}")
        \/ Enclosed(s, "[", "]")

JsonVal(text) ==
    LET s == RStrip(LStrip(text))
    IN  CASE Enclosed(s, "{", "}") -> JObject(SubSeq(s, 2, Len(s) - 1))
          [] Enclosed(s, "[", "]") -> JArray(SubSeq(s, 2, Len(s) - 1))
          [] OTHER -> PyNone
\* ... or raises json.JSONDecodeError, when JsonOk is false

-----------------------------------------------------------------------------
(* Cache store, lines 24-61 *)

Underscore == <<"_">>
Unknown == <<"u", "n", "k", "n", "o", "w", "n">>

cache_path_drops_version(device, build, vers) ==
    IF Truthy(build)
    THEN PathJoin(CACHE_DIR, device \o Underscore \o build \o DotJson)
    ELSE IF Truthy(vers)
    THEN PathJoin(CACHE_DIR, device \o Underscore \o vers \o DotJson)
    ELSE PathJoin(CACHE_DIR, device \o Underscore \o Unknown \o DotJson)

cache_path(device, build, vers) ==
    IF Truthy(build) /\ Truthy(vers)
    THEN PathJoin(CACHE_DIR, device \o Underscore \o build \o Underscore \o vers \o DotJson)
    ELSE IF Truthy(build)
    THEN PathJoin(CACHE_DIR, device \o Underscore \o build \o DotJson)
    ELSE IF Truthy(vers)
    THEN PathJoin(CACHE_DIR, device \o Underscore \o vers \o DotJson)
    ELSE PathJoin(CACHE_DIR, device \o Underscore \o Unknown \o DotJson)

\* every path the program tests or opens is PathJoin(CACHE_DIR, name)
FileAt(path) == cacheFiles[Basename(path)]
Exists(path) == cacheDir /\ Basename(path) \in DOMAIN cacheFiles
Age(path) == now - FileAt(path).mtime

cache_valid_off_by_one(path) == Exists(path) /\ Age(path) <= CACHE_TTL

cache_valid(path) == Exists(path) /\ Age(path) < CACHE_TTL

\* what load_cache does: a return value, or the exception it raises
Returned(val, path) == [cached |-> val, cache_file |-> path, exc |-> "none"]
Raised(e) == [cached |-> PyNone, cache_file |-> None, exc |-> e]

\* with open(path, "r") as f: return json.load(f), path
OpenAndLoad(path) ==
    IF JsonOk(FileAt(path).text)
    THEN Returned(JsonVal(FileAt(path).text), path)
    ELSE Raised("JSONDecodeError")

\* line 48
FallbackMatch(fname, device, build, vers) ==
    /\ IsSubstr(device, fname)
    /\ \/ Truthy(build) /\ IsSubstr(build, fname)
       \/ Truthy(vers) /\ IsSubstr(vers, fname)

\* the files at which the loop of lines 47-54 can stop: os.listdir gives the
\* names in arbitrary order, the loop returns at the first one that matches
\* and is valid
FallbackCandidates(device, build, vers) ==
    {fname \in DOMAIN cacheFiles :
        /\ FallbackMatch(fname, device, build, vers)
        /\ cache_valid(PathJoin(CACHE_DIR, fname))}

\* the set of outcomes of load_cache(device, build, version)
load_cache_exact_only(device, build, vers) ==
    LET exact_path == cache_path(device, build, vers)
    IN  IF cache_valid(exact_path) THEN {OpenAndLoad(exact_path)}
        ELSE IF ~cacheDir THEN {Raised("FileNotFoundError")}
        ELSE {Returned(PyNone, None)}

load_cache(device, build, vers) ==
    LET exact_path == cache_path(device, build, vers)
    IN  IF cache_valid(exact_path) THEN {OpenAndLoad(exact_path)}
        ELSE IF ~cacheDir THEN {Raised("FileNotFoundError")}
        ELSE IF FallbackCandidates(device, build, vers) = {}
        THEN {Returned(PyNone, None)}
        ELSE {OpenAndLoad(PathJoin(CACHE_DIR, fname)) :
                fname \in FallbackCandidates(device, build, vers)}

\* the cache directory after open(path, "w") and json.dump
WriteFile(files, fname, text) ==
    [f \in DOMAIN files \cup {fname} |->
        IF f = fname THEN [text |-> text, mtime |-> now] ELSE files[f]]

save_cache_wrong_path(data, device, build, vers) ==
    WriteFile(cacheFiles, Basename(cache_path(device, vers, build)), json_dump(data))

save_cache(data, device, build, vers) ==
    WriteFile(cacheFiles, Basename(cache_path(device, build, vers)), json_dump(data))

\* open(path, "w") raises FileNotFoundError when CACHE_DIR is gone
save_cache_raises == ~cacheDir

-----------------------------------------------------------------------------
(* Inputs: the identifiers the command line, the server and the cache       *)
(* directory are drawn from                                                 *)

deviceX == <<"d", "e", "v", "i", "c", "e", "X">>
iPhone93 == <<"i", "P", "h", "o", "n", "e", "9", ",", "3">>
buildA == <<"b", "u", "i", "l", "d", "A">>
b19H370 == <<"1", "9", "H", "3", "7", "0">>
v10 == <<"1", ".", "0">>
Sky == <<"S", "k", "y">>

\* f"Keys:{update} {build} ({device})", line 124
KeysPrefix == <<"K", "e", "y", "s", ":">>
Subobject(update, build, device) ==
    KeysPrefix \o Fmt(update) \o <<" ">> \o Fmt(build) \o <<" ", "(">> \o Fmt(device) \o <<")">>

\* the key bundle the wiki holds for a subobject: a non-empty JSON object,
\* told apart from the bundles of other subobjects by its content
Bundle(subobject) == JObject(subobject)

\* files that may lie in CACHE_DIR when the cache store is put to use:
\* written by an earlier run or another tool (1, 4), cut short while being
\* written (2), or holding an empty result (3)
InitFileChoices ==
    << [name |-> deviceX \o Underscore \o buildA \o Underscore \o v10 \o DotJson,
        text |-> <<" ">> \o json_dump(Bundle(Subobject(Sky, buildA, deviceX))) \o <<" ">>,
        mtime |-> 1],
       [name |-> deviceX \o Underscore \o b19H370 \o DotJson,
        text |-> <<"{">>,
        mtime |-> CACHE_TTL],
       [name |-> deviceX \o Underscore \o v10 \o DotJson,
        text |-> <<"{", "}">>,
        mtime |-> CACHE_TTL],
       [name |-> deviceX \o Underscore \o buildA \o DotJson,
        text |-> json_dump(Bundle(Subobject(Sky, buildA, deviceX))),
        mtime |-> 0] >>

\* files that may lie in CACHE_DIR when a run of main starts: an entry an
\* earlier run of this program wrote, not yet 7 days old (1), and an empty
\* result left by another tool (2)
RunFileChoices ==
    << [name |-> deviceX \o Underscore \o buildA \o Underscore \o v10 \o DotJson,
        text |-> json_dump(Bundle(Subobject(Sky, buildA, deviceX))),
        mtime |-> 1],
       [name |-> deviceX \o Underscore \o v10 \o DotJson,
        text |-> <<"{", "}">>,
        mtime |-> CACHE_TTL] >>

\* the directory holding the chosen files
DirOf(choices, chosen) ==
    [f \in {choices[i].name : i \in chosen} |->
        LET i == CHOOSE j \in chosen : choices[j].name = f
        IN  [text |-> choices[i].text, mtime |-> choices[i].mtime]]

DirsOf(choices) ==
    {DirOf(choices, chosen) : chosen \in {c \in SUBSET (1..Len(choices)) :
                                             Cardinality(c) <= MaxInitFiles}}

InitDirs == DirsOf(InitFileChoices)
RunDirs == DirsOf(RunFileChoices)

\* (device, build, version) triples of the cache-store operations
CacheTriples ==
    << <<deviceX, b19H370, v10>>, <<deviceX, buildA, None>>, <<deviceX, None, v10>>,
       <<deviceX, None, None>> >>

\* contents handed to save
CacheContents ==
    << Bundle(Subobject(Sky, buildA, deviceX)), PyNone >>

-----------------------------------------------------------------------------
(* The environment: the clock, and other processes acting on CACHE_DIR *)

\* the cache-store specification also steps to the end of the retention window
CacheTickSteps == {CACHE_TTL - 1, CACHE_TTL}
TickSteps == {CACHE_TTL - 1}

NoOp == [name |-> "none", device |-> <<>>, build |-> None, vers |-> None,
         res |-> Returned(PyNone, None), n |-> 0]
NoSave == [valid |-> FALSE, device |-> <<>>, build |-> None, vers |-> None,
           data |-> PyNone, time |-> 0]

NoEscape == [text |-> <<>>, result |-> <<>>, done |-> FALSE]
NoArgs == [product |-> None, ios |-> None, build |-> None, bulk |-> 0]
NoEntry == [device |-> <<>>, version |-> <<>>, build |-> <<>>]
NoSnapshot == [cache |-> <<>>, out |-> <<>>]
NoEarlier == [valid |-> FALSE, keys |-> PyNone, file |-> <<>>, at |-> 0]
NoResp == [call |-> "none", n |-> 0, kind |-> "none", cls |-> "none"]

InitFs ==
    /\ cacheDir = TRUE
    /\ outFiles = <<>>
    /\ now = CACHE_TTL
    /\ nticks = 0

InitResolver ==
    /\ pc = "main"
    /\ idx = 0
    /\ call = [device |-> None, version |-> None, build |-> None]
    /\ version = None
    /\ cached = PyNone
    /\ cache_file = None
    /\ final_build = None
    /\ update_line = None
    /\ discovered_build = None
    /\ discovered_version = None
    /\ keys = PyNone
    /\ ret = [keys |-> PyNone, output_file |-> None]
    /\ exc = "none"
    /\ trace = <<>>
    /\ fetchReq = None
    /\ lastResp = NoResp
    /\ entry = NoEntry
    /\ fs0 = NoSnapshot
    /\ earlier = NoEarlier
    /\ gap = "no request yet"

resolverVars == <<argv, pc, idx, call, version, cached, cache_file, final_build,
                  update_line, discovered_build, discovered_version, keys, ret, exc, trace, fetchReq, lastResp, entry,
                  fs0, earlier, gap>>

-----------------------------------------------------------------------------
(* Cache-store specification: save and load applied to a cache directory *)

CacheInit ==
    /\ InitFs
    /\ cacheFiles \in InitDirs
    /\ InitResolver
    /\ argv = NoArgs
    /\ op = NoOp
    /\ saved = NoSave
    /\ escaped = NoEscape

CSave ==
    \E i \in 1..Len(CacheTriples), j \in 1..Len(CacheContents) :
        LET t == CacheTriples[i]
            data == CacheContents[j]
        IN  /\ op.n < MaxOps
            /\ ~save_cache_raises
            /\ cacheFiles' = save_cache(data, t[1], t[2], t[3])
            /\ op' = [NoOp EXCEPT !.name = "save", !.device = t[1], !.build = t[2],
                                  !.vers = t[3], !.n = op.n + 1]
            /\ saved' = [valid |-> TRUE, device |-> t[1], build |-> t[2],
                         vers |-> t[3], data |-> data, time |-> now]
            /\ UNCHANGED <<cacheDir, outFiles, now, nticks, resolverVars, escaped>>

CSaveRaises ==
    \E i \in 1..Len(CacheTriples) :
        LET t == CacheTriples[i]
        IN  /\ op.n < MaxOps
            /\ save_cache_raises
            /\ op' = [NoOp EXCEPT !.name = "save", !.device = t[1], !.build = t[2],
                                  !.vers = t[3], !.n = op.n + 1,
                                  !.res = Raised("FileNotFoundError")]
            /\ UNCHANGED <<cacheDir, cacheFiles, outFiles, now, nticks, saved,
                           resolverVars, escaped>>

CLoad ==
    \E i \in 1..Len(CacheTriples) :
        LET t == CacheTriples[i]
        IN  \E r \in load_cache(t[1], t[2], t[3]) :
                op' = [NoOp EXCEPT !.name = "load", !.device = t[1], !.build = t[2],
                                   !.vers = t[3], !.n = op.n, !.res = r]
            /\ UNCHANGED <<cacheDir, cacheFiles, outFiles, now, nticks, saved,
                           resolverVars, escaped>>

\* another process removes CACHE_DIR and what it holds
CRemoveDir ==
    /\ op.n < MaxOps
    /\ cacheDir
    /\ cacheDir' = FALSE
    /\ cacheFiles' = <<>>
    /\ op' = [NoOp EXCEPT !.name = "rmdir", !.n = op.n + 1]
    /\ saved' = NoSave
    /\ UNCHANGED <<outFiles, now, nticks, resolverVars, escaped>>

CTick ==
    \E d \in CacheTickSteps :
        /\ nticks < MaxTicks
        /\ now' = now + d
        /\ nticks' = nticks + 1
        /\ op' = [NoOp EXCEPT !.name = "tick", !.n = op.n]
        /\ UNCHANGED <<cacheDir, cacheFiles, outFiles, saved, resolverVars, escaped>>

CacheNext == CSave \/ CSaveRaises \/ CLoad \/ CRemoveDir \/ CTick

SpecCache == CacheInit /\ [][CacheNext]_vars

-----------------------------------------------------------------------------
(* Escaping specification: smw_path_escape applied to every text of up to   *)
(* MaxLen characters over the five reserved characters, the characters the  *)
(* replacements bring in, and a letter                                      *)

EscapeAlphabet == {"[", "]", " ", ":", ",", "-", "%", "5", "a"}
Texts == UNION {[1..n -> EscapeAlphabet] : n \in 0..MaxLen}

EscapeInit ==
    /\ InitFs
    /\ cacheFiles = <<>>
    /\ InitResolver
    /\ argv = NoArgs
    /\ op = NoOp
    /\ saved = NoSave
    /\ escaped \in {[text |-> t, result |-> <<>>, done |-> FALSE] : t \in Texts}

Escape ==
    /\ ~escaped.done
    /\ escaped' = [text |-> escaped.text, result |-> smw_path_escape(escaped.text),
                   done |-> TRUE]
    /\ UNCHANGED <<cacheDir, cacheFiles, outFiles, now, nticks, resolverVars,
                   op, saved>>

SpecEscape == EscapeInit /\ [][Escape]_vars

-----------------------------------------------------------------------------
(* Step 1: discovery, lines 66-117.  A response is                          *)
(*   kind:    "error" (urlopen raises: transport, timeout, HTTP status),    *)
(*            "notjson" (json.load raises) or "json";                       *)
(*   top:     the Python type of the parsed body;                           *)
(*   results: the value of its "results" member, [t, items]: t = "missing" *)
(*            when there is none, items the (title, entry) pairs in         *)
(*            response order;                                               *)
(*   an entry is [t, printouts], printouts is [t, build, version].          *)

NoPrintouts == [t |-> "missing", build |-> <<>>, version |-> <<>>]
Printouts(b, v) == [t |-> "object", build |-> b, version |-> v]
Page(title, t, printouts) == [title |-> title, entry |-> [t |-> t, printouts |-> printouts]]
Body(top, t, items) ==
    [kind |-> "json", top |-> top, results |-> [t |-> t, items |-> items]]
Failure(kind) == [kind |-> kind, top |-> "none", results |-> [t |-> "missing", items |-> <<>>]]

OtherTitle == <<"M", "a", "i", "n">>

\* what the wiki may answer to the discovery query for `device`
DiscoveryResponses(device) ==
    << Failure("error"),
       Failure("notjson"),
       Body("array", "missing", <<>>),
       Body("object", "missing", <<>>),
       Body("object", "array", <<>>),
       Body("object", "array", <<Page(OtherTitle, "object", NoPrintouts)>>),
       Body("object", "object", <<Page(OtherTitle, "object", NoPrintouts)>>),
       Body("object", "object",
            <<Page(OtherTitle, "object", NoPrintouts),
              Page(Subobject(Sky, buildA, device), "object",
                   Printouts(<<buildA>>, <<v10>>)),
              Page(KeysPrefix \o OtherTitle, "object", NoPrintouts)>>),
       Body("object", "object",
            <<Page(Subobject(Sky, b19H370, device), "object",
                   [t |-> "array", build |-> <<>>, version |-> <<>>])>>),
       Body("object", "object",
            <<Page(KeysPrefix \o Sky, "object", Printouts(<<>>, <<>>))>>),
       Body("object", "object",
            <<Page(Subobject(Sky, buildA, device), "null", NoPrintouts)>>) >>

\* what kind of answer a discovery response is
DiscoveryClass(resp) ==
    IF resp.kind # "json" THEN resp.kind
    ELSE IF resp.top # "object" THEN "not an object"
    ELSE IF resp.results.items = <<>> THEN "no results"
    ELSE IF resp.results.t # "object" THEN "results not a mapping"
    ELSE IF \A i \in 1..Len(resp.results.items) :
               ~StartsWith(resp.results.items[i].title, KeysPrefix)
    THEN "no Keys: title"
    ELSE IF \E i \in 1..Len(resp.results.items) : resp.results.items[i].entry.t # "object"
    THEN "entry not a mapping"
    ELSE "usable"

Discovered(u, b, v) == [exc |-> "none", update_line |-> u, build |-> b, version |-> v]
DiscoveryRaised(e) == [exc |-> e, update_line |-> None, build |-> None, version |-> None]

\* index of the first page whose title starts with "Keys:", 0 if none (line 95-96)
FirstKeysPage_last(items) ==
    IF \E i \in 1..Len(items) : StartsWith(items[i].title, KeysPrefix)
    THEN CHOOSE i \in 1..Len(items) :
            /\ StartsWith(items[i].title, KeysPrefix)
            /\ \A j \in (i + 1)..Len(items) : ~StartsWith(items[j].title, KeysPrefix)
    ELSE 0

FirstKeysPage(items) ==
    IF \E i \in 1..Len(items) : StartsWith(items[i].title, KeysPrefix)
    THEN CHOOSE i \in 1..Len(items) :
            /\ StartsWith(items[i].title, KeysPrefix)
            /\ \A j \in 1..(i - 1) : ~StartsWith(items[j].title, KeysPrefix)
    ELSE 0

\* lines 97-115, for the selected page
FromPage(page) ==
    LET rest == SubSeq(page.title, Len(KeysPrefix) + 1, Len(page.title))
        parts == Split(rest, " ")
        printouts == page.entry.printouts
        pbuild == IF printouts.t = "object" /\ printouts.build # <<>>
                  THEN printouts.build[1] ELSE None
        pversion == IF printouts.t = "object" /\ printouts.version # <<>>
                    THEN printouts.version[1] ELSE None
        \* lines 108-111: the build parsed from the title when no printout gave one
        dbuild == IF ~Truthy(pbuild) /\ Len(parts) > 1 THEN parts[2] ELSE pbuild
    IN  IF page.entry.t # "object" THEN DiscoveryRaised("AttributeError")
        ELSE Discovered(parts[1], dbuild, pversion)

discover_update_line(resp) ==
    \* lines 84-89: the try covers urlopen and json.load only
    IF resp.kind # "json" THEN Discovered(None, None, None)
    \* line 91: data.get on a value that is no dict
    ELSE IF resp.top # "object" THEN DiscoveryRaised("AttributeError")
    \* lines 92-93
    ELSE IF resp.results.items = <<>> THEN Discovered(None, None, None)
    \* line 95: results.items() on a value that is no dict
    ELSE IF resp.results.t # "object" THEN DiscoveryRaised("AttributeError")
    ELSE IF FirstKeysPage(resp.results.items) = 0 THEN Discovered(None, None, None)
    ELSE FromPage(resp.results.items[FirstKeysPage(resp.results.items)])

-----------------------------------------------------------------------------
(* Step 2: fetch keys, lines 123-147.  A response is [kind, data]. *)

FetchResponses(subobject) ==
    << [kind |-> "error", data |-> PyNone],
       [kind |-> "notjson", data |-> PyNone],
       [kind |-> "json", data |-> JObject(<<>>)],
       [kind |-> "json", data |-> JArray(<<"1">>)],
       [kind |-> "json", data |-> Bundle(subobject)] >>

FetchClass(resp) ==
    IF resp.kind # "json" THEN resp.kind
    ELSE IF resp.data.t # "object" THEN "not an object"
    ELSE IF resp.data.v = <<>> THEN "empty object"
    ELSE "usable"

fetch_keys(resp) ==
    IF resp.kind # "json" THEN PyNone
    ELSE IF resp.data.t = "object" /\ TruthyVal(resp.data) THEN resp.data
    ELSE PyNone

-----------------------------------------------------------------------------
(* The command line, lines 197-219 *)

Entry(d, v, b) == [device |-> d, version |-> v, build |-> b]

\* the product,version,build entries a user may give to --bulk; an empty
\* field stands for an identifier that is not given
BulkEntries ==
    << Entry(iPhone93, <<>>, <<>>),
       Entry(iPhone93, <<>>, b19H370),
       Entry(deviceX, <<>>, <<>>),
       Entry(deviceX, v10, <<>>),
       Entry(deviceX, v10, b19H370) >>

\* the text of an entry on the command line: 'iPhone9,3,15.0.1,19H370'
EntryText(e) == e.device \o <<",">> \o e.version \o <<",">> \o e.build

\* lines 208-211
ParseEntry(text) ==
    LET parts == Split(text, ",")
    IN  [device |-> parts[1],
         version |-> IF Len(parts) > 1 /\ parts[2] # <<>> THEN parts[2] ELSE None,
         build |-> IF Len(parts) > 2 /\ parts[3] # <<>> THEN parts[3] ELSE None]

\* -p, -s, -b of a single-target run
SingleArgs ==
    << [product |-> deviceX, ios |-> v10, build |-> None, bulk |-> 0],
       [product |-> iPhone93, ios |-> None, build |-> b19H370, bulk |-> 0],
       [product |-> deviceX, ios |-> None, build |-> None, bulk |-> 0] >>

BulkArgs(n) == [product |-> deviceX, ios |-> None, build |-> None, bulk |-> n]

Init ==
    /\ InitFs
    /\ cacheFiles \in RunDirs
    /\ InitResolver
    /\ argv \in {SingleArgs[i] : i \in 1..Len(SingleArgs)} \cup {BulkArgs(n) : n \in 1..MaxBulk}
    /\ op = NoOp
    /\ saved = NoSave
    /\ escaped = NoEscape

NoRet == [keys |-> PyNone, output_file |-> None]

\* fetch_firmware_keys(device, version, build) is entered
Enter(device, vers, build) ==
    /\ pc' = "load"
    /\ call' = [device |-> device, version |-> vers, build |-> build]
    /\ version' = vers
    /\ cached' = PyNone
    /\ cache_file' = None
    /\ final_build' = None
    /\ update_line' = None
    /\ discovered_build' = None
    /\ discovered_version' = None
    /\ keys' = PyNone
    /\ ret' = NoRet
    /\ trace' = <<>>
    /\ fetchReq' = None
    /\ lastResp' = NoResp
    /\ fs0' = NoSnapshot
    \* the call that has just returned, if it succeeded on this same request:
    \* its bundle, the cache file that held it, and the time of its return
    /\ earlier' = IF /\ ret.output_file # None
                     /\ call = [device |-> device, version |-> vers, build |-> build]
                  THEN [valid |-> TRUE, keys |-> ret.keys,
                        file |-> IF TruthyVal(cached) THEN Basename(cache_file)
                                 ELSE Basename(cache_path(call.device, final_build, version)),
                        at |-> now]
                  ELSE NoEarlier

fsVars == <<cacheDir, cacheFiles, outFiles, now, nticks>>
localVars == <<call, version, cached, cache_file, final_build, update_line,
               discovered_build, discovered_version, keys, ret, fetchReq,
               lastResp, fs0, earlier>>

\* lines 212-214: the entry is skipped with the diagnostic
MainBulkSkip ==
    \E i \in 1..Len(BulkEntries) :
        LET a == ParseEntry(EntryText(BulkEntries[i]))
        IN  /\ pc = "main" /\ argv.bulk > 0 /\ idx < argv.bulk
            /\ ~Truthy(a.version) /\ ~Truthy(a.build)
            /\ idx' = idx + 1
            /\ entry' = BulkEntries[i]
            /\ trace' = <<[ev |-> "skip", at |-> now]>>
            /\ UNCHANGED <<fsVars, localVars, argv, pc, exc, gap, op, saved, escaped>>

\* line 215
MainBulkCall ==
    \E i \in 1..Len(BulkEntries) :
        LET a == ParseEntry(EntryText(BulkEntries[i]))
        IN  /\ pc = "main" /\ argv.bulk > 0 /\ idx < argv.bulk
            /\ Truthy(a.version) \/ Truthy(a.build)
            /\ idx' = idx + 1
            /\ entry' = BulkEntries[i]
            /\ Enter(a.device, a.version, a.build)
            /\ UNCHANGED <<fsVars, argv, exc, gap, op, saved, escaped>>

\* the loop of line 207 ends
MainBulkEnd ==
    /\ pc = "main" /\ argv.bulk > 0 /\ idx = argv.bulk
    /\ pc' = "exit"
    /\ UNCHANGED <<fsVars, localVars, argv, idx, exc, trace, entry, gap, op, saved, escaped>>

\* lines 217-218: parser.error ends the process
MainSingleUsage ==
    /\ pc = "main" /\ argv.bulk = 0 /\ idx = 0
    /\ ~Truthy(argv.ios) /\ ~Truthy(argv.build)
    /\ pc' = "exit"
    /\ exc' = "SystemExit"
    /\ UNCHANGED <<fsVars, localVars, argv, idx, trace, entry, gap, op, saved, escaped>>

\* line 219
MainSingleCall ==
    /\ pc = "main" /\ argv.bulk = 0 /\ idx = 0
    /\ Truthy(argv.ios) \/ Truthy(argv.build)
    /\ idx' = 1
    /\ Enter(argv.product, argv.ios, argv.build)
    /\ UNCHANGED <<fsVars, argv, exc, entry, gap, op, saved, escaped>>

MainSingleEnd ==
    /\ pc = "main" /\ argv.bulk = 0 /\ idx = 1
    /\ pc' = "exit"
    /\ UNCHANGED <<fsVars, localVars, argv, idx, exc, trace, entry, gap, op, saved, escaped>>

-----------------------------------------------------------------------------
(* The resolver fetch_firmware_keys, lines 152-192, one action per step:    *)
(* the steps are separated by the blocking calls (cache lookup, the two     *)
(* requests, the sleep, the two writes).                                    *)

Crash(e) == pc' = "crashed" /\ exc' = e

\* the step `ev` is recorded with the time at which it ends
Logged(ev, at) == trace' = Append(trace, [ev |-> ev, at |-> at])

\* lines 158-161: the build taken from the name of the matched cache file
BuildFromFilename(build, path) ==
    LET parts == Split(Replace(Basename(path), DotJson, <<>>), "_")
    IN  IF ~Truthy(build) /\ Truthy(path) /\ Len(parts) >= 2 THEN parts[2] ELSE build

\* line 187
OutputFile_supplied_build(device, fbuild) ==
    Fmt(device) \o Underscore \o Fmt(call.build) \o DotJson

OutputFile(device, fbuild) == Fmt(device) \o Underscore \o Fmt(fbuild) \o DotJson

\* lines 166 and 180
DiscoveryFailed(u) == ~Truthy(u)

FetchFailed_never(k) == FALSE

FetchFailed(k) == ~TruthyVal(k)

\* line 156
CacheHit_never(c) == FALSE

CacheHit(c) == TruthyVal(c)

\* line 170: final_build = build if build else discovered_build
FinalBuild_discovered_first(build, dbuild) == IF Truthy(dbuild) THEN dbuild ELSE build

FinalBuild(build, dbuild) == IF Truthy(build) THEN build ELSE dbuild

\* line 172: version = version if version else discovered_version
FinalVersion_supplied_only(vers, dversion) == vers

FinalVersion(vers, dversion) == IF Truthy(vers) THEN vers ELSE dversion

\* where the resolver goes after a usable discovery: the sleep of line 177
AfterDiscovery_no_delay == "fetch"

AfterDiscovery == "sleep"

\* line 153, then 156-163
CacheCheck ==
    /\ pc = "load"
    /\ \E r \in load_cache(call.device, call.build, call.version) :
          IF r.exc # "none"
          THEN /\ Crash(r.exc)
               /\ UNCHANGED <<cached, cache_file, final_build, keys>>
          ELSE /\ cached' = r.cached
               /\ cache_file' = r.cache_file
               /\ exc' = exc
               /\ IF CacheHit(r.cached)
                  THEN /\ keys' = r.cached
                       /\ final_build' = BuildFromFilename(call.build, r.cache_file)
                       /\ pc' = "output"
                  ELSE /\ keys' = keys
                       /\ final_build' = call.build
                       /\ pc' = "discover"
    /\ Logged("load", now)
    /\ fs0' = [cache |-> cacheFiles, out |-> outFiles]
    /\ UNCHANGED <<fsVars, argv, idx, call, version, update_line,
                   discovered_build, discovered_version, ret, fetchReq,
                   lastResp, entry, earlier, gap, op, saved, escaped>>

\* lines 165-172
Discover ==
    /\ pc = "discover"
    /\ \E i \in 1..Len(DiscoveryResponses(call.device)) :
          LET resp == DiscoveryResponses(call.device)[i]
              d == discover_update_line(resp)
          IN  /\ lastResp' = [call |-> "discovery", n |-> i, kind |-> resp.kind,
                              cls |-> DiscoveryClass(resp)]
              /\ IF d.exc # "none"
                 THEN /\ Crash(d.exc)
                      /\ UNCHANGED <<update_line, discovered_build,
                                     discovered_version, final_build, version, ret>>
                 ELSE /\ update_line' = d.update_line
                      /\ discovered_build' = d.build
                      /\ discovered_version' = d.version
                      /\ exc' = exc
                      /\ IF DiscoveryFailed(d.update_line)
                         THEN /\ ret' = NoRet
                              /\ pc' = "main"
                              /\ UNCHANGED <<final_build, version>>
                         ELSE /\ final_build' = FinalBuild(call.build, d.build)
                              /\ version' = FinalVersion(version, d.version)
                              /\ pc' = AfterDiscovery
                              /\ ret' = ret
    /\ Logged("discover", now)
    /\ fs0' = IF pc' = "main" THEN NoSnapshot ELSE fs0
    /\ gap' = "request"
    /\ UNCHANGED <<fsVars, argv, idx, call, cached, cache_file, keys, fetchReq,
                   entry, earlier, op, saved, escaped>>

\* line 177
PoliteDelay ==
    /\ pc = "sleep"
    /\ now' = now + POLITE_DELAY
    /\ pc' = "fetch"
    /\ Logged("sleep", now')
    /\ gap' = "slept"
    /\ UNCHANGED <<cacheDir, cacheFiles, outFiles, nticks, localVars, argv, idx,
                   exc, entry, op, saved, escaped>>

\* lines 179-182
FetchKeys ==
    /\ pc = "fetch"
    /\ fetchReq' = smw_path_escape(Subobject(update_line, final_build, call.device))
    /\ \E i \in 1..Len(FetchResponses(Subobject(update_line, final_build, call.device))) :
          LET resp == FetchResponses(Subobject(update_line, final_build, call.device))[i]
              k == fetch_keys(resp)
          IN  /\ lastResp' = [call |-> "fetch", n |-> i, kind |-> resp.kind,
                              cls |-> FetchClass(resp)]
              /\ keys' = k
              /\ IF FetchFailed(k)
                 THEN ret' = NoRet /\ pc' = "main"
                 ELSE ret' = ret /\ pc' = "save"
    /\ Logged("fetch", now)
    /\ fs0' = IF pc' = "main" THEN NoSnapshot ELSE fs0
    /\ gap' = "request"
    /\ UNCHANGED <<fsVars, argv, idx, call, version, cached, cache_file,
                   final_build, update_line, discovered_build,
                   discovered_version, exc, entry, earlier, op, saved, escaped>>

\* line 184
PersistCache ==
    /\ pc = "save"
    /\ IF save_cache_raises
       THEN Crash("FileNotFoundError") /\ cacheFiles' = cacheFiles
       ELSE /\ cacheFiles' = save_cache(keys, call.device, final_build, version)
            /\ pc' = "output"
            /\ exc' = exc
    /\ Logged("save", now)
    /\ UNCHANGED <<cacheDir, outFiles, now, nticks, localVars, argv, idx, entry,
                   gap, op, saved, escaped>>

\* lines 187-192
Output ==
    /\ pc = "output"
    /\ LET output_file == OutputFile(call.device, final_build)
       IN  /\ outFiles' = [f \in DOMAIN outFiles \cup {output_file} |->
                              IF f = output_file THEN json_dump(keys) ELSE outFiles[f]]
           /\ ret' = [keys |-> keys, output_file |-> output_file]
    /\ pc' = "main"
    /\ Logged("output", now)
    /\ fs0' = NoSnapshot
    /\ UNCHANGED <<cacheDir, cacheFiles, now, nticks, argv, idx, call, version,
                   cached, cache_file, final_build, update_line,
                   discovered_build, discovered_version, keys, exc,
                   fetchReq, lastResp, entry, earlier, gap, op, saved, escaped>>

\* line 188: open(output_file, "w") raises OSError (no permission, no space)
OutputRaises ==
    /\ pc = "output"
    /\ Crash("OSError")
    /\ Logged("output", now)
    /\ UNCHANGED <<fsVars, localVars, argv, idx, entry, gap, op, saved, escaped>>

\* Time passes.  Only the lookup reads the clock and only the save stamps a
\* file, so time passing before the lookup of a call stands for time passing
\* anywhere since the call before it.
Tick ==
    \E d \in TickSteps :
        /\ pc = "load"
        /\ nticks < MaxTicks
        /\ now' = now + d
        /\ nticks' = nticks + 1
        /\ UNCHANGED <<cacheDir, cacheFiles, outFiles, resolverVars, op, saved, escaped>>

\* Another process removes CACHE_DIR: before the lookup of a call, or between
\* its lookup and its save.
RemoveCacheDir ==
    /\ pc \in {"load", "save"}
    /\ cacheDir
    /\ cacheDir' = FALSE
    /\ cacheFiles' = <<>>
    /\ UNCHANGED <<outFiles, now, nticks, resolverVars, op, saved, escaped>>

Next ==
    \/ MainBulkSkip \/ MainBulkCall \/ MainBulkEnd
    \/ MainSingleUsage \/ MainSingleCall \/ MainSingleEnd
    \/ CacheCheck \/ Discover \/ PoliteDelay \/ FetchKeys \/ PersistCache
    \/ Output \/ OutputRaises
    \/ Tick \/ RemoveCacheDir

Spec == Init /\ [][Next]_vars

-----------------------------------------------------------------------------
(* Claims about the cache store, checked under SpecCache.  op is the last  *)
(* operation applied, so after a load the directory and the clock are the  *)
(* ones the load saw.                                                      *)

Fresh(fname) == now - cacheFiles[fname].mtime < CACHE_TTL
ExactName == Basename(cache_path(op.device, op.build, op.vers))
LoadMiss == Returned(PyNone, None)

\* C1: load never returns the content of a cache file whose age is 7 days or
\* more, through the exact path or through the scan, whatever the file holds:
\* a path it returns is that of a file younger than 7 days, and a directory
\* holding only files of 7 days or more answers every lookup (absent, absent).
C1_StaleNeverReturned ==
    op.name = "load" =>
        /\ (op.res.exc = "none" /\ op.res.cache_file # None) =>
              /\ Basename(op.res.cache_file) \in DOMAIN cacheFiles
              /\ Fresh(Basename(op.res.cache_file))
        /\ (cacheDir /\ \A f \in DOMAIN cacheFiles : ~Fresh(f)) => op.res = LoadMiss

\* a lookup whose exact file exists, holds valid JSON and is exactly 7 days
\* old was answered (absent, absent)
C1_Witness ==
    /\ op.name = "load"
    /\ cacheDir
    /\ ExactName \in DOMAIN cacheFiles
    /\ now - cacheFiles[ExactName].mtime = CACHE_TTL
    /\ JsonOk(cacheFiles[ExactName].text)
    /\ op.res = LoadMiss

\* C2: save(content, device, build, version) followed by load(device, build,
\* version) less than 7 days later, with no other write to the cache directory
\* in between, returns exactly the saved content and the exact path of the
\* triple, also when build and/or version are absent.
C2_RoundTrip ==
    ( /\ op.name = "load"
      /\ saved.valid
      /\ <<op.device, op.build, op.vers>> = <<saved.device, saved.build, saved.vers>>
      /\ now - saved.time < CACHE_TTL )
    => op.res = Returned(saved.data, cache_path(saved.device, saved.build, saved.vers))

\* a content saved without a build was loaded back after time had passed
C2_Witness ==
    /\ op.name = "load"
    /\ saved.valid
    /\ <<op.device, op.build, op.vers>> = <<saved.device, saved.build, saved.vers>>
    /\ saved.build = None
    /\ saved.vers # None
    /\ now > saved.time
    /\ now - saved.time < CACHE_TTL
    /\ TruthyVal(op.res.cached)

\* the files the fallback lookup of the last load is about: younger than 7
\* days, the name containing the device and the supplied build or version
Such(fname) ==
    /\ Fresh(fname)
    /\ IsSubstr(op.device, fname)
    /\ \/ Truthy(op.build) /\ IsSubstr(op.build, fname)
       \/ Truthy(op.vers) /\ IsSubstr(op.vers, fname)

FallbackCase ==
    /\ op.name = "load"
    /\ cacheDir
    /\ ~(ExactName \in DOMAIN cacheFiles /\ Fresh(ExactName))
    /\ \E f \in DOMAIN cacheFiles : Such(f)

\* C9 as stated: when the exact path is missing or stale and the directory
\* holds a fresh file whose name contains the device and the supplied build or
\* version, load returns the content and path of such a file.
C9_FallbackReturns ==
    FallbackCase =>
        \E f \in DOMAIN cacheFiles :
            /\ Such(f)
            /\ op.res = Returned(JsonVal(cacheFiles[f].text), PathJoin(CACHE_DIR, f))

\* C9 as amended: ... load returns the content and path of such a file, or
\* raises JSONDecodeError when the file the scan stops at does not hold valid
\* JSON; it never answers (absent, absent).
C9_FallbackReturnsOrRaises ==
    FallbackCase =>
        \E f \in DOMAIN cacheFiles :
            /\ Such(f)
            /\ IF JsonOk(cacheFiles[f].text)
               THEN op.res = Returned(JsonVal(cacheFiles[f].text), PathJoin(CACHE_DIR, f))
               ELSE op.res = Raised("JSONDecodeError")

\* the lookup (deviceX, no build, "1.0") with a fresh deviceX_buildA_1.0.json
\* as the only file returned that file's content
C9_Witness ==
    /\ FallbackCase
    /\ <<op.device, op.build, op.vers>> = <<deviceX, None, v10>>
    /\ DOMAIN cacheFiles = {deviceX \o Underscore \o buildA \o Underscore \o v10 \o DotJson}
    /\ op.res = Returned(Bundle(Subobject(Sky, buildA, deviceX)),
                         PathJoin(CACHE_DIR, deviceX \o Underscore \o buildA \o Underscore \o v10 \o DotJson))

\* the last operation was given both a build and a version
BothKnown == op.name \in {"save", "load"} /\ Truthy(op.build) /\ Truthy(op.vers)

\* C13: for (device, build, version) with build and version both known the
\* cache path is the same on every call - the file a save writes is the file
\* the exact lookup of a later load opens - and it differs from the path of
\* the same device with only that build or only that version known.
C13_PathDeterministicDistinct ==
    BothKnown =>
        LET path == cache_path(op.device, op.build, op.vers)
        IN  /\ path = CACHE_DIR \o <<"/">> \o op.device \o <<"_">> \o op.build
                                \o <<"_">> \o op.vers \o DotJson
            /\ path # cache_path(op.device, op.build, None)
            /\ path # cache_path(op.device, None, op.vers)
            /\ (op.name = "save" /\ op.res.exc = "none") =>
                  /\ Basename(path) \in DOMAIN cacheFiles
                  /\ cacheFiles[Basename(path)].mtime = now
            /\ ( /\ op.name = "load"
                 /\ saved.valid
                 /\ <<op.device, op.build, op.vers>> = <<saved.device, saved.build, saved.vers>>
                 /\ now - saved.time < CACHE_TTL ) => op.res.cache_file = path

\* a load found the file saved for (deviceX, 19H370, 1.0) next to the file
\* deviceX_19H370.json of the same device and build
C13_Witness ==
    /\ BothKnown
    /\ op.name = "load"
    /\ saved.valid
    /\ op.res.cache_file = cache_path(saved.device, saved.build, saved.vers)
    /\ Basename(cache_path(op.device, op.build, None)) \in DOMAIN cacheFiles
    /\ Basename(cache_path(op.device, op.build, op.vers)) \in DOMAIN cacheFiles

\* C15: a missing cache directory is never an error: a save called while
\* CACHE_DIR does not exist creates it and writes the entry, a load called
\* while it does not exist reports a miss, and neither raises.
C15_MissingDirNoError ==
    /\ op.name = "save" =>
          /\ op.res.exc = "none"
          /\ cacheDir
          /\ Basename(cache_path(op.device, op.build, op.vers)) \in DOMAIN cacheFiles
    /\ (op.name = "load" /\ ~cacheDir) => op.res = LoadMiss

-----------------------------------------------------------------------------
(* Claim about escaping, checked under SpecEscape *)

Reserved == {"[", "]", " ", ":", ","}

\* what the claim says becomes of one character
EscapedChar(c) ==
    CASE c = "[" -> <<"-", "5", "B">>
      [] c = "]" -> <<"-", "5", "D">>
      [] c = " " -> <<"-", "2", "0">>
      [] c = ":" -> <<"-", "3", "A">>
      [] c = "," -> <<"%", "2", "C">>
      [] OTHER -> <<c>>

RECURSIVE EachEscaped(_)
EachEscaped(text) ==
    IF text = <<>> THEN <<>>
    ELSE EscapedChar(text[1]) \o EachEscaped(SubSeq(text, 2, Len(text)))

\* C14: for every input string the escape function replaces every occurrence
\* of [, ], space, : and , by -5B, -5D, -20, -3A and %2C, leaves every other
\* character untouched and in place, and its result holds none of the five
\* reserved characters.
C14_Escaping ==
    escaped.done =>
        /\ escaped.result = EachEscaped(escaped.text)
        /\ \A i \in 1..Len(escaped.result) : escaped.result[i] \notin Reserved

\* a text with two reserved characters around a character the replacements
\* themselves bring in
C14_Witness ==
    /\ escaped.done
    /\ escaped.text = <<"[", "-", ",">>
    /\ escaped.result = <<"-", "5", "B", "-", "%", "2", "C">>

-----------------------------------------------------------------------------
(* Claims about the resolver and the bulk loop, checked under Spec *)

Events == [i \in 1..Len(trace) |-> trace[i].ev]
Returned1 == pc = "main" /\ Len(trace) > 0 /\ trace[1].ev = "load"
Failed == Returned1 /\ ret = NoRet
Succeeded == Returned1 /\ ret.output_file # None

\* C3: a resolution that fails leaves the file system unchanged.  A discovery
\* that meets a request failure, no results or no title starting with Keys:,
\* and a key fetch that meets a request failure or a result that is no
\* non-empty JSON object, make the resolver return (absent, absent), and at
\* that return every cache file and every output file is as the resolver
\* found it at its first statement, the cache lookup.
C3_FailureWritesNothing ==
    [][ /\ ( /\ pc \in {"discover", "fetch"}
             /\ lastResp'.cls \in {"error", "notjson", "no results", "no Keys: title",
                                   "not an object", "empty object"}
             /\ (pc = "discover" => lastResp'.cls # "not an object") )
           => (pc' = "main" /\ ret' = NoRet)
        /\ (pc \in {"discover", "fetch"} /\ pc' = "main")
           => /\ ret' = NoRet
              /\ cacheDir' = cacheDir
              /\ cacheFiles' = fs0.cache
              /\ outFiles' = fs0.out ]_vars

\* a key fetch failed after a discovery that succeeded, with files on disk
C3_Witness ==
    /\ Failed
    /\ Events = <<"load", "discover", "sleep", "fetch">>
    /\ lastResp.cls = "empty object"
    /\ DOMAIN cacheFiles # {}

\* C4: every resolution that ends in success, from a cache hit or from a
\* fresh fetch, has written the output file {device}_{final_build}.json, and
\* that file holds the key bundle the resolution returns.
C4_OutputWritten ==
    Succeeded =>
        /\ ret.output_file = Fmt(call.device) \o <<"_">> \o Fmt(final_build) \o DotJson
        /\ ret.output_file \in DOMAIN outFiles
        /\ JsonOk(outFiles[ret.output_file])
        /\ JsonVal(outFiles[ret.output_file]) = ret.keys
        /\ ret.keys = keys
        /\ Events[Len(trace)] = "output"

\* a resolution without a build was served from the cache and wrote the
\* output file under the build taken from the cache file's name
C4_Witness ==
    /\ Succeeded
    /\ Events = <<"load", "output">>
    /\ call.build = None
    /\ final_build = buildA
    /\ ret.output_file \in DOMAIN outFiles

\* C5: for both network calls, every network failure and every malformed
\* response (not JSON, a top level that is no object, a results value that is
\* no mapping) becomes an absent result inside the call and never an
\* exception in the resolver, which then returns (absent, absent).
C5_ResponsesNeverRaise ==
    lastResp.cls \in {"error", "notjson", "not an object", "results not a mapping"}
        => exc = "none" /\ pc \in {"main", "exit"} /\ ret = NoRet

\* C6: in bulk mode a failure while resolving one entry (DiscoveryFailed,
\* FetchFailed, or a file system failure on a cache or output file) aborts
\* only that entry: when the process ends, every entry of the list was taken.
C6_LaterEntriesProcessed ==
    ( /\ argv.bulk > 0
      /\ pc \in {"exit", "crashed"}
      /\ exc \in {"none", "OSError", "FileNotFoundError"} )
    => idx = argv.bulk

\* C7: a bulk entry that carries neither a version nor a build is skipped
\* with the diagnostic: no call of the resolver, hence no request and no write.
C7_EmptyEntrySkipped ==
    (entry # NoEntry /\ entry.version = <<>> /\ entry.build = <<>>)
        => /\ Events = <<"skip">>
           /\ pc \in {"main", "exit"}

\* C8: a bulk entry with an empty version field and a build is not skipped:
\* the resolver is called with the entry's device, no version, and the
\* entry's build.
C8_BuildOnlyEntry ==
    (entry # NoEntry /\ entry.version = <<>> /\ entry.build # <<>>)
        => /\ Events # <<"skip">>
           /\ call = [device |-> entry.device, version |-> None, build |-> entry.build]

\* C10: inside one resolution the key-fetch request is issued only on a cache
\* miss (the lookup gave no non-empty bundle), only after the discovery
\* request returned a usable update line, and only after the 2-second delay
\* that follows discovery; a discovery failure is followed by neither the
\* delay nor a fetch request.
C10_FetchOrder ==
    /\ (\E i \in 1..Len(trace) : trace[i].ev = "fetch") =>
          /\ Len(trace) >= 4
          /\ SubSeq(Events, 1, 4) = <<"load", "discover", "sleep", "fetch">>
          /\ trace[3].at - trace[2].at = POLITE_DELAY
          /\ trace[4].at >= trace[2].at + POLITE_DELAY
          /\ ~TruthyVal(cached)
          /\ update_line # None /\ update_line # <<>>
    /\ (\E i \in 1..Len(trace) : trace[i].ev = "sleep") =>
          (update_line # None /\ update_line # <<>>)
    /\ (Len(trace) >= 2 /\ trace[2].ev = "discover"
          /\ (update_line = None \/ update_line = <<>>)) =>
          Events = <<"load", "discover">>

\* a key fetch was issued, two seconds after a discovery, on a lookup that
\* found an empty object in a fresh cache file
C10_Witness ==
    /\ Len(trace) >= 4
    /\ trace[4].ev = "fetch"
    /\ trace[4].at = trace[2].at + POLITE_DELAY
    /\ cache_file # None

\* the resolution that has just returned took the cache-miss path to its end
FreshSuccess ==
    /\ Succeeded
    /\ Events = <<"load", "discover", "sleep", "fetch", "save", "output">>

\* the bundle the wiki holds for what the resolution asked for
Fetched == Bundle(Subobject(update_line, final_build, call.device))

\* C11: after a successful fresh (cache-miss) resolution the cache directory
\* holds a file at the cache path of (device, final_build, final_version) whose
\* content is the fetched bundle, final_version being the caller's version if
\* supplied and the discovered version otherwise; with a build supplied and no
\* version known the file is {device}_{build}.json.
C11_FreshResolutionCached ==
    FreshSuccess =>
        LET final_version == IF Truthy(call.version) THEN call.version
                             ELSE discovered_version
            name == Basename(cache_path(call.device, final_build, final_version))
        IN  /\ cacheDir
            /\ name \in DOMAIN cacheFiles
            /\ JsonOk(cacheFiles[name].text)
            /\ JsonVal(cacheFiles[name].text) = Fetched
            /\ ret.keys = Fetched
            /\ (Truthy(call.build) /\ ~Truthy(final_version)) =>
                  name = call.device \o <<"_">> \o call.build \o DotJson

\* a resolution with a build and no version, whose discovery gave no version
\* either, was cached under the two-part name
C11_Witness ==
    /\ FreshSuccess
    /\ Truthy(call.build) /\ ~Truthy(call.version) /\ ~Truthy(discovered_version)
    /\ (call.device \o <<"_">> \o call.build \o DotJson) \in DOMAIN cacheFiles

\* a usable discovery has been made by the running or the last resolution
DiscoveryDone ==
    /\ Len(trace) >= 2
    /\ trace[2].ev = "discover"
    /\ Truthy(update_line)
    /\ pc # "crashed"

\* C12: on a cache miss final_build is the caller's build whenever one was
\* supplied, even when discovery reports another build, and the discovered
\* build otherwise; likewise for the version; and the key-fetch request embeds
\* exactly the (escaped) subobject Keys:{update_line} {final_build} ({device}).
\* The request is looked at when it has just been made.
C12_BuildVersionResolution ==
    /\ DiscoveryDone =>
          /\ final_build = IF Truthy(call.build) THEN call.build ELSE discovered_build
          /\ version = IF Truthy(call.version) THEN call.version ELSE discovered_version
    /\ (DiscoveryDone /\ Len(trace) = 4) =>
          fetchReq = smw_path_escape(<<"K", "e", "y", "s", ":">> \o update_line \o <<" ">>
                                     \o Fmt(final_build) \o <<" ", "(">>
                                     \o call.device \o <<")">>)

\* the caller supplied 19H370, discovery reported buildA, and the request
\* was made for 19H370
C12_Witness ==
    /\ DiscoveryDone
    /\ Len(trace) >= 4
    /\ call.build = b19H370
    /\ discovered_build = buildA
    /\ final_build = b19H370
    /\ IsSubstr(b19H370, fetchReq)

\* every file is as save_cache writes it: the compact text of a non-empty
\* JSON object
WrittenByProgram(files) ==
    \A f \in DOMAIN files :
        /\ JsonOk(files[f].text)
        /\ JsonVal(files[f].text).t = "object"
        /\ TruthyVal(JsonVal(files[f].text))
        /\ files[f].text = json_dump(JsonVal(files[f].text))

\* the running call resolves again the request the call before it resolved
\* with success, and has made its lookup in a directory written by the program
SecondResolution ==
    /\ earlier.valid
    /\ pc \in {"discover", "sleep", "fetch", "save", "output"}
    /\ WrittenByProgram(fs0.cache)

\* no request was made, and the bundle to return is the one returned before
ServedFromCache ==
    /\ pc = "output"
    /\ Events = <<"load">>
    /\ keys = earlier.keys

\* files of the lookup's directory, younger than 7 days at the lookup, that
\* the lookup of the running call can open
Matching ==
    {f \in DOMAIN fs0.cache :
        /\ trace[1].at - fs0.cache[f].mtime < CACHE_TTL
        /\ \/ f = Basename(cache_path(call.device, call.build, call.version))
           \/ FallbackMatch(f, call.device, call.build, call.version)}

\* C16 as stated: starting from a cache directory written only by this
\* program, after a successful resolution of a request a second resolution of
\* the same request within 7 days issues no network request (no discovery, no
\* delay, no fetch) and returns the same key bundle.
C16_NoRepeatedRequests ==
    (SecondResolution /\ trace[1].at - earlier.at < CACHE_TTL) => ServedFromCache

\* C16 as amended: ... a second resolution of the same request, made while
\* the cache file that held the bundle of the first (the file it wrote, or the
\* file it was served from) is younger than 7 days and is the only file
\* younger than 7 days that matches the request, issues no network request
\* and returns the same key bundle.
C16_NoRepeatedRequestsWhileFresh ==
    (SecondResolution /\ Matching = {earlier.file}) => ServedFromCache

\* a request resolved from the network was resolved again later, from the
\* cache file the first resolution wrote
C16_Witness ==
    /\ SecondResolution
    /\ Matching = {earlier.file}
    /\ fs0.cache[earlier.file].mtime = earlier.at
    /\ trace[1].at > earlier.at
    /\ ServedFromCache

\* the discovery response the resolver met last, when discovery returned
\* without raising
DiscoveryAnswer == DiscoveryResponses(call.device)[lastResp.n]
DiscoveryReturned ==
    /\ lastResp.call = "discovery"
    /\ lastResp.cls \in {"no results", "no Keys: title", "usable"}

\* the text s up to its first space, and what follows that space
UpToSpace(s) ==
    IF \E i \in 1..Len(s) : s[i] = " "
    THEN SubSeq(s, 1, (CHOOSE i \in 1..Len(s) :
                          s[i] = " " /\ \A j \in 1..(i - 1) : s[j] # " ") - 1)
    ELSE s
AfterSpace(s) == SubSeq(s, Len(UpToSpace(s)) + 2, Len(s))

\* C17: discovery selects the first result, in response order, whose title
\* starts with Keys:; update_line is the text after that prefix up to the
\* first space; the discovered build is the first value of the build printout
\* when that printout is present and non-empty, otherwise the second
\* space-separated token of the title after the prefix (absent if there is
\* none); with empty results or no title with the prefix the update line is
\* absent.  The results are a mapping from titles to JSON objects.
C17_DiscoverySelection ==
    DiscoveryReturned =>
        LET items == DiscoveryAnswer.results.items
            keysPages == {i \in 1..Len(items) :
                            /\ Len(items[i].title) >= 5
                            /\ SubSeq(items[i].title, 1, 5) = <<"K", "e", "y", "s", ":">>}
        IN  IF keysPages = {}
            THEN update_line = None
            ELSE LET first == CHOOSE i \in keysPages : \A j \in keysPages : i <= j
                     rest == SubSeq(items[first].title, 6, Len(items[first].title))
                     printouts == items[first].entry.printouts
                 IN  /\ update_line = UpToSpace(rest)
                     /\ discovered_build =
                           IF printouts.t = "object" /\ printouts.build # <<>>
                           THEN printouts.build[1]
                           ELSE IF UpToSpace(rest) # rest
                           THEN UpToSpace(AfterSpace(rest))
                           ELSE None

\* the second of three results was selected; the third has the prefix too
C17_Witness ==
    /\ DiscoveryReturned
    /\ Len(DiscoveryAnswer.results.items) > 2
    /\ update_line = Sky
    /\ discovered_build = buildA

\* a bundle tells what it was fetched for: it is the bundle of the subobject
\* Keys:{update} {build} ({device}), and these are the build and the device
BuildOf(bundle) == UpToSpace(AfterSpace(bundle.v))
DeviceOf(bundle) ==
    LET d == AfterSpace(AfterSpace(bundle.v))
    IN  SubSeq(d, 2, Len(d) - 1)

\* C18: over a cache directory written only by this program, whenever the
\* caller supplies a build B and the resolution succeeds, the bundle returned
\* and written to {device}_{B}.json was fetched for that device and build B:
\* the fallback scan never serves a bundle cached for another build or device.
C18_CacheSoundForBuild ==
    (Succeeded /\ Truthy(call.build) /\ WrittenByProgram(cacheFiles)) =>
        /\ ret.output_file = call.device \o <<"_">> \o call.build \o DotJson
        /\ BuildOf(ret.keys) = call.build
        /\ DeviceOf(ret.keys) = call.device

\* the resolution that has just returned was served from the cache, its
\* caller having supplied no build
HitWithoutBuild ==
    /\ Succeeded
    /\ Events = <<"load", "output">>
    /\ ~Truthy(call.build)
    /\ WrittenByProgram(cacheFiles)

\* C19: on a cache hit where the caller supplied no build, the final_build
\* taken from the name of the matched cache file is the build under which
\* the entry was saved, so the output path written on the hit is the output
\* path written by the fresh resolution that created the entry.
C19_BuildFromFilename ==
    HitWithoutBuild =>
        /\ Fmt(final_build) = BuildOf(ret.keys)
        /\ ret.output_file = DeviceOf(ret.keys) \o <<"_">> \o BuildOf(ret.keys) \o DotJson

\* C20: bulk mode is strictly sequential and keeps the politeness delay: an
\* entry is taken only when the resolution of the entry before has returned,
\* and between any two consecutive network requests of a run (the key fetch
\* of one entry and the discovery of the next included) the process has
\* slept for the politeness delay.
C20_BulkSequentialPolite ==
    [][ /\ idx' # idx => pc = "main"
        /\ (pc \in {"discover", "fetch"} /\ trace' # trace) => gap # "request" ]_vars

====
